---- MODULE Spec2Model ----
(***************************************************************************)
(* Model of airflow.providers.kakao.hooks.kakao.KakaoHook: the cached      *)
(* `token` property (OAuth2 refresh-token exchange) and `send_message`     *)
(* (payload construction, self-send, friend-send in batches of five).      *)
(* One hook instance is modelled; the HTTP peer and the Airflow connection *)
(* store are the environment.  `calls` records the requests.post calls of  *)
(* the operation in progress, `token_posts` and `conn_lookups` count the   *)
(* refresh POSTs and get_connection calls over the instance's lifetime.    *)
(***************************************************************************)
EXTENDS Integers, Sequences, FiniteSets, TLC

\* ------------------------------------------------------------------ bounds
MaxReceivers == 11      \* longest receiver_uuids list tried
MaxOps == 3             \* operations performed on one hook instance

\* ------------------------------------------------------- python primitives
None == "<None>"

Truthy(s) == s # None /\ s # ""

Get(d, k, default) == IF k \in DOMAIN d THEN d[k] ELSE default

Some(x) == [none |-> FALSE, v |-> x]
NoneOf(empty) == [none |-> TRUE, v |-> empty]

EmptyDict == << >>

\* ------------------------------------------------------------- exceptions
NoErr == [type |-> "", msg |-> ""]
ErrNoConn == [type |-> "AirflowException", msg |-> "No valid Kakao connection supplied."]
ErrMissingCred == [type |-> "AirflowException",
                   msg |-> "REST API Key (Login) or Refresh Token (Password) is missing in the Connection."]
ErrTokenRefresh == [type |-> "AirflowException", msg |-> "Kakao Token Refresh Error"]
ErrInvalidMessage == [type |-> "AirflowException",
                      msg |-> "message_args must contain 'text' or 'template_object'."]
ErrSend == [type |-> "AirflowException", msg |-> "KakaoTalk Send Error"]
ErrTransport == [type |-> "requests.exceptions.ConnectionError", msg |-> "transport"]
ErrJSONDecode == [type |-> "json.JSONDecodeError", msg |-> "Expecting value"]
ErrTypeError == [type |-> "TypeError", msg |-> "argument of type 'NoneType' is not iterable"]

\* ------------------------------------------------------------------- urls
token_url == "https://kauth.kakao.com/oauth/token"
send_me_url == "https://kapi.kakao.com/v2/api/talk/memo/default/send"
send_friend_url == "https://kapi.kakao.com/v1/api/talk/friends/message/default/send"
default_url == "http://localhost:8080"
chunk_size == 5

\* ------------------------------------------------------------------- json
\* A message dict has the shape {object_type, text, link: {web_url, mobile_web_url}}.
NullDict == [object_type |-> "", text |-> "", link |-> [web_url |-> "", mobile_web_url |-> ""]]

FeedDict == [object_type |-> "feed", text |-> "Daily Report",
             link |-> [web_url |-> "http://google.com", mobile_web_url |-> "http://google.com"]]

TextPayload(text, web_url, mobile_web_url) ==
    [object_type |-> "text", text |-> text,
     link |-> [web_url |-> web_url, mobile_web_url |-> mobile_web_url]]

Texts == {"hello"}
WebUrls == {default_url, "https://airflow.apache.org"}
MobileUrls == {default_url, "https://airflow.apache.org", "https://m.airflow.apache.org"}

KnownDicts == {FeedDict} \cup {TextPayload(t, w, m) : t \in Texts, w \in WebUrls, m \in MobileUrls}

\* json.dumps of a message dict
JsonDumps(d) ==
    "{\"object_type\": \"" \o d.object_type \o "\", \"text\": \"" \o d.text
      \o "\", \"link\": {\"web_url\": \"" \o d.link.web_url
      \o "\", \"mobile_web_url\": \"" \o d.link.mobile_web_url \o "\"}}"

IsJson(s) == \E d \in KnownDicts : JsonDumps(d) = s

\* json.loads of a string (defined on valid JSON text only)
JsonLoads(s) == CHOOSE d \in KnownDicts : JsonDumps(d) = s

RECURSIVE JoinQuoted(_)
JoinQuoted(list) ==
    IF list = << >> THEN ""
    ELSE IF Len(list) = 1 THEN "\"" \o list[1] \o "\""
    ELSE "\"" \o list[1] \o "\", " \o JoinQuoted(Tail(list))

\* json.dumps of a list of strings
JsonDumpsList(list) == "[" \o JoinQuoted(list) \o "]"

\* python values that may sit under 'template_object'
PyStr(s) == [type |-> "str", str |-> s, dict |-> NullDict]
PyDict(d) == [type |-> "dict", str |-> "", dict |-> d]

\* ------------------------------------------------------------ environment
Connections ==
    ("kakao_default" :> [login |-> "id1", password |-> "refresh1", client_secret |-> "secret1"])
 @@ ("kakao_nosecret" :> [login |-> "id1", password |-> "refresh1", client_secret |-> None])
 @@ ("kakao_nologin" :> [login |-> None, password |-> "refresh1", client_secret |-> None])
 @@ ("kakao_nopassword" :> [login |-> "id1", password |-> "", client_secret |-> None])

get_connection(conn_id) == Connections[conn_id]

ConnIds == {None, ""} \cup DOMAIN Connections
TokenArgs == {None, "", "direct_token"}

Response(transport, status, body) == [transport |-> transport, status |-> status, body |-> body]

TokenResponses ==
    { Response(TRUE, 0, EmptyDict),
      Response(FALSE, 401, ("error" :> "invalid_grant")),
      Response(FALSE, 200, ("access_token" :> "tok1")),
      Response(FALSE, 200, ("access_token" :> "tok2") @@ ("refresh_token" :> "refresh2")),
      Response(FALSE, 200, ("token_type" :> "bearer")) }

SendBodyOk == [result_code |-> 0]
SendBodyPartial == [result_code |-> 0, failure_info |-> <<"uuid_failed">>]

SendResponses ==
    { Response(TRUE, 0, EmptyDict),
      Response(FALSE, 500, EmptyDict),
      Response(FALSE, 200, SendBodyOk),
      Response(FALSE, 200, SendBodyPartial) }

\* response.raise_for_status()
RaisesForStatus(r) == r.status >= 400 /\ r.status < 600

UuidPool == <<"u1", "u2", "u3", "u4", "u5", "u6", "u7", "u8", "u9", "u10", "u11", "u12", "u13", "u14">>

ReceiverArgs ==
    {NoneOf(<< >>)}
    \cup {Some([i \in 1..n |-> UuidPool[i]]) : n \in 0..MaxReceivers}
    \cup {Some([i \in 1..n |-> UuidPool[((i - 1) % 2) + 1]]) : n \in {3, 6}}

FeedJson == JsonDumps(FeedDict)

ApiParamsArgs ==
    { NoneOf(EmptyDict),
      Some(EmptyDict),
      Some("web_url" :> PyStr("https://airflow.apache.org")),
      Some("text" :> PyStr("hello")),
      Some(("text" :> PyStr("hello")) @@ ("web_url" :> PyStr("https://airflow.apache.org"))),
      Some(("text" :> PyStr("hello")) @@ ("mobile_web_url" :> PyStr("https://m.airflow.apache.org"))),
      Some(("text" :> PyStr("hello")) @@ ("web_url" :> PyStr("https://airflow.apache.org"))
             @@ ("mobile_web_url" :> PyStr("https://m.airflow.apache.org"))),
      Some("template_object" :> PyDict(FeedDict)),
      Some("template_object" :> PyStr(FeedJson)),
      Some("template_object" :> PyStr("{not json")),
      Some(("template_object" :> PyDict(FeedDict)) @@ ("text" :> PyStr("hello"))),
      Some(("template_object" :> PyStr(FeedJson)) @@ ("text" :> PyStr("hello"))
             @@ ("web_url" :> PyStr("https://airflow.apache.org"))) }

\* ------------------------------------------------------------------ state
VARIABLES
    self_token,       \* self._token, the constructor's `token` argument
    kakao_conn_id,    \* self.kakao_conn_id
    cache,            \* the cached_property slot of `token` in the instance dict
    pc,               \* "idle", or the position inside send_message
    op,               \* the operation started last: "none", "read", "send"
    ops,              \* operations started so far
    receiver_uuids,   \* argument of send_message
    api_params,       \* argument of send_message
    current_token,    \* local of send_message
    payload,          \* local of send_message
    chunks,           \* local of send_message
    idx,              \* position of the batch loop (1-based)
    results,          \* local of send_message; its return value
    outcome,          \* "none", "running", "returned", "raised"
    raised,           \* the exception that left the operation
    token_read,       \* the value the last read of `token` gave
    warnings,         \* log.warning calls of the operation
    calls,            \* requests.post calls of the operation, in order
    token_posts,      \* POSTs to token_url over the instance's lifetime
    conn_lookups      \* get_connection calls over the instance's lifetime

vars == <<self_token, kakao_conn_id, cache, pc, op, ops, receiver_uuids, api_params,
          current_token, payload, chunks, idx, results, outcome, raised, token_read,
          warnings, calls, token_posts, conn_lookups>>

config == <<self_token, kakao_conn_id>>
locals == <<current_token, payload, chunks, idx, results>>
args == <<receiver_uuids, api_params>>
lifetime == <<cache, token_posts, conn_lookups>>

Call(url, headers, data, resp) == [url |-> url, headers |-> headers, data |-> data, resp |-> resp]

\* ------------------------------------------------------------------ token
TokenResult(ret, err, posts, lookups, warn) ==
    [ret |-> ret, err |-> err, posts |-> posts, lookups |-> lookups, warn |-> warn]

TokenHeaders == ("Content-Type" :> "application/x-www-form-urlencoded;charset=utf-8")

TokenData(conn) ==
    LET base == ("grant_type" :> "refresh_token") @@ ("client_id" :> conn.login)
                  @@ ("refresh_token" :> conn.password)
    IN  IF Truthy(conn.client_secret) THEN base @@ ("client_secret" :> conn.client_secret)
        ELSE base

\* TokenRefresh without the test of `not new_access_token`
TokenRefreshUnchecked(conn, r) ==
    LET post == <<Call(token_url, TokenHeaders, TokenData(conn), r)>>
        new_access_token == Get(r.body, "access_token", None)
    IN  IF r.transport \/ RaisesForStatus(r) THEN TokenResult(None, ErrTokenRefresh, post, 1, 0)
        ELSE TokenResult(new_access_token, NoErr, post, 1, 0)

\* the try block of the property: the POST and the handling of its response r
TokenRefresh(conn, r) ==
    LET post == <<Call(token_url, TokenHeaders, TokenData(conn), r)>>
        new_access_token == Get(r.body, "access_token", None)
        new_refresh_token == Get(r.body, "refresh_token", None)
    IN  IF r.transport \/ RaisesForStatus(r) THEN TokenResult(None, ErrTokenRefresh, post, 1, 0)
        ELSE IF ~Truthy(new_access_token) THEN TokenResult(None, ErrTokenRefresh, post, 1, 0)
        ELSE TokenResult(new_access_token, NoErr, post, 1,
                         IF Truthy(new_refresh_token) THEN 1 ELSE 0)

\* TokenBody without the early return of self._token
TokenBodyIgnoresOverride(r) ==
    IF ~Truthy(kakao_conn_id) THEN TokenResult(None, ErrNoConn, << >>, 0, 0)
    ELSE LET conn == get_connection(kakao_conn_id)
         IN  IF ~Truthy(conn.login) \/ ~Truthy(conn.password)
             THEN TokenResult(None, ErrMissingCred, << >>, 1, 0)
             ELSE TokenRefresh(conn, r)

\* TokenBody with `and` for `or` in the test of the credentials
TokenBodyBothMissing(r) ==
    IF Truthy(self_token) THEN TokenResult(self_token, NoErr, << >>, 0, 0)
    ELSE IF ~Truthy(kakao_conn_id) THEN TokenResult(None, ErrNoConn, << >>, 0, 0)
    ELSE LET conn == get_connection(kakao_conn_id)
         IN  IF ~Truthy(conn.login) /\ ~Truthy(conn.password)
             THEN TokenResult(None, ErrMissingCred, << >>, 1, 0)
             ELSE TokenRefresh(conn, r)

\* the body of the `token` property, run when the cache slot is empty
TokenBody(r) ==
    IF Truthy(self_token) THEN TokenResult(self_token, NoErr, << >>, 0, 0)
    ELSE IF ~Truthy(kakao_conn_id) THEN TokenResult(None, ErrNoConn, << >>, 0, 0)
    ELSE LET conn == get_connection(kakao_conn_id)
         IN  IF ~Truthy(conn.login) \/ ~Truthy(conn.password)
             THEN TokenResult(None, ErrMissingCred, << >>, 1, 0)
             ELSE TokenRefresh(conn, r)

\* functools.cached_property: a value is stored only when the body returns
CacheAfter(e) == IF e.err = NoErr THEN [has |-> TRUE, val |-> e.ret] ELSE cache

\* a plain property in place of the cached one
TokenPropertyUncached(r) == TokenBody(r)

\* a read of self.token
TokenProperty(r) ==
    IF cache.has THEN TokenResult(cache.val, NoErr, << >>, 0, 0) ELSE TokenBody(r)

TokenEffects(e) ==
    /\ cache' = (IF cache.has THEN cache ELSE CacheAfter(e))
    /\ token_posts' = token_posts + Len(e.posts)
    /\ conn_lookups' = conn_lookups + e.lookups

\* ---------------------------------------------------------------- payload
\* BuildPayload with the 'text' branch tested first
BuildPayloadTextFirst(params) ==
    IF params.none THEN [payload |-> NullDict, err |-> ErrTypeError]
    ELSE IF "text" \in DOMAIN params.v THEN
        LET text == params.v["text"].str
            web_url == Get(params.v, "web_url", PyStr(default_url)).str
            mobile_web_url == Get(params.v, "mobile_web_url", PyStr(web_url)).str
        IN  [payload |-> TextPayload(text, web_url, mobile_web_url), err |-> NoErr]
    ELSE IF "template_object" \in DOMAIN params.v THEN
        LET t == params.v["template_object"]
        IN  IF t.type = "str"
            THEN IF IsJson(t.str) THEN [payload |-> JsonLoads(t.str), err |-> NoErr]
                 ELSE [payload |-> NullDict, err |-> ErrJSONDecode]
            ELSE [payload |-> t.dict, err |-> NoErr]
    ELSE [payload |-> NullDict, err |-> ErrInvalidMessage]

\* lines 187-206 of send_message
BuildPayload(params) ==
    IF params.none THEN [payload |-> NullDict, err |-> ErrTypeError]
    ELSE IF "template_object" \in DOMAIN params.v THEN
        LET t == params.v["template_object"]
        IN  IF t.type = "str"
            THEN IF IsJson(t.str) THEN [payload |-> JsonLoads(t.str), err |-> NoErr]
                 ELSE [payload |-> NullDict, err |-> ErrJSONDecode]
            ELSE [payload |-> t.dict, err |-> NoErr]
    ELSE IF "text" \in DOMAIN params.v THEN
        LET text == params.v["text"].str
            web_url == Get(params.v, "web_url", PyStr(default_url)).str
            mobile_web_url == Get(params.v, "mobile_web_url", PyStr(web_url)).str
        IN  [payload |-> TextPayload(text, web_url, mobile_web_url), err |-> NoErr]
    ELSE [payload |-> NullDict, err |-> ErrInvalidMessage]

\* ----------------------------------------------------------------- chunks
Min(a, b) == IF a < b THEN a ELSE b

\* Chunks with the trailing partial chunk left out
ChunksDropTail(list, size) ==
    [k \in 1..(Len(list) \div size) |-> SubSeq(list, (k - 1) * size + 1, k * size)]

\* [receiver_uuids[i : i + size] for i in range(0, len(receiver_uuids), size)]
Chunks(list, size) ==
    [k \in 1..((Len(list) + size - 1) \div size) |->
        SubSeq(list, (k - 1) * size + 1, Min(k * size, Len(list)))]

\* SendHeaders without the Bearer scheme
SendHeadersNoScheme(tok) ==
    ("Authorization" :> tok) @@ ("Content-Type" :> "application/x-www-form-urlencoded")

SendHeaders(tok) ==
    ("Authorization" :> ("Bearer " \o tok)) @@ ("Content-Type" :> "application/x-www-form-urlencoded")

\* ---------------------------------------------------------------- actions
Init ==
    /\ self_token \in TokenArgs
    /\ kakao_conn_id \in ConnIds
    /\ cache = [has |-> FALSE, val |-> None]
    /\ pc = "idle"
    /\ op = "none"
    /\ ops = 0
    /\ receiver_uuids = NoneOf(<< >>)
    /\ api_params = NoneOf(EmptyDict)
    /\ current_token = None
    /\ payload = NullDict
    /\ chunks = << >>
    /\ idx = 0
    /\ results = << >>
    /\ outcome = "none"
    /\ raised = NoErr
    /\ token_read = None
    /\ warnings = 0
    /\ calls = << >>
    /\ token_posts = 0
    /\ conn_lookups = 0

ResetLocals ==
    /\ current_token' = None
    /\ payload' = NullDict
    /\ chunks' = << >>
    /\ idx' = 0
    /\ results' = << >>

\* hook.token read by a caller
ReadToken ==
    /\ pc = "idle"
    /\ ops < MaxOps
    /\ \E r \in TokenResponses :
         LET e == TokenProperty(r)
         IN  /\ TokenEffects(e)
             /\ calls' = e.posts
             /\ warnings' = e.warn
             /\ raised' = e.err
             /\ token_read' = e.ret
             /\ outcome' = (IF e.err = NoErr THEN "returned" ELSE "raised")
    /\ op' = "read"
    /\ ops' = ops + 1
    /\ ResetLocals
    /\ UNCHANGED <<config, pc, args>>

\* a caller enters send_message(receiver_uuids, api_params)
SendMessageCall ==
    /\ pc = "idle"
    /\ ops < MaxOps
    /\ receiver_uuids' \in ReceiverArgs
    /\ api_params' \in ApiParamsArgs
    /\ pc' = "token"
    /\ op' = "send"
    /\ ops' = ops + 1
    /\ outcome' = "running"
    /\ raised' = NoErr
    /\ warnings' = 0
    /\ calls' = << >>
    /\ ResetLocals
    /\ UNCHANGED <<config, lifetime, token_read>>

\* line 180: current_token = self.token
SendMessageToken ==
    /\ pc = "token"
    /\ \E r \in TokenResponses :
         LET e == TokenProperty(r)
         IN  /\ TokenEffects(e)
             /\ calls' = calls \o e.posts
             /\ warnings' = warnings + e.warn
             /\ IF e.err = NoErr
                THEN /\ current_token' = e.ret
                     /\ token_read' = e.ret
                     /\ pc' = "payload"
                     /\ UNCHANGED <<raised, outcome>>
                ELSE /\ raised' = e.err
                     /\ outcome' = "raised"
                     /\ pc' = "idle"
                     /\ UNCHANGED <<current_token, token_read>>
    /\ UNCHANGED <<config, op, ops, args, payload, chunks, idx, results>>

\* lines 187-222: payload construction and the choice of the delivery mode
SendMessagePayload ==
    /\ pc = "payload"
    /\ LET b == BuildPayload(api_params)
       IN  IF b.err # NoErr
           THEN /\ raised' = b.err
                /\ outcome' = "raised"
                /\ pc' = "idle"
                /\ UNCHANGED <<payload, chunks, idx>>
           ELSE /\ payload' = b.payload
                /\ IF ~receiver_uuids.none /\ receiver_uuids.v # << >>
                   THEN /\ chunks' = Chunks(receiver_uuids.v, chunk_size)
                        /\ idx' = 1
                        /\ pc' = "batch"
                   ELSE /\ pc' = "send_me"
                        /\ UNCHANGED <<chunks, idx>>
                /\ UNCHANGED <<raised, outcome>>
    /\ UNCHANGED <<config, lifetime, op, ops, args, current_token, results, token_read,
                   warnings, calls>>

\* lines 242-243: failed_uuids = result.get("failure_info", []) is non-empty
BatchWarns(result) == Get(result, "failure_info", << >>) # << >>

\* SendFailure that also raises on a response reporting failure_info
SendFailureOnPartial(r) ==
    IF r.transport THEN ErrTransport
    ELSE IF RaisesForStatus(r) THEN ErrSend
    ELSE IF BatchWarns(r.body) THEN ErrSend
    ELSE NoErr

\* what follows a send POST: raise_for_status, response.json(), the except clause
SendFailure(r) ==
    IF r.transport THEN ErrTransport
    ELSE IF RaisesForStatus(r) THEN ErrSend
    ELSE NoErr

\* lines 224-246: one iteration of the batch loop; the last one returns
SendFriendBatch ==
    /\ pc = "batch"
    /\ idx <= Len(chunks)
    /\ \E r \in SendResponses :
         LET data == ("receiver_uuids" :> JsonDumpsList(chunks[idx]))
                       @@ ("template_object" :> JsonDumps(payload))
             err == SendFailure(r)
         IN  /\ calls' = Append(calls, Call(send_friend_url, SendHeaders(current_token), data, r))
             /\ IF err # NoErr
                THEN /\ raised' = err
                     /\ outcome' = "raised"
                     /\ pc' = "idle"
                     /\ UNCHANGED <<results, warnings, idx>>
                ELSE /\ results' = Append(results, r.body)
                     /\ warnings' = warnings + (IF BatchWarns(r.body) THEN 1 ELSE 0)
                     /\ idx' = idx + 1
                     /\ IF idx = Len(chunks)
                        THEN /\ outcome' = "returned"
                             /\ pc' = "idle"
                        ELSE UNCHANGED <<outcome, pc>>
                     /\ UNCHANGED raised
    /\ UNCHANGED <<config, lifetime, op, ops, args, current_token, payload, chunks, token_read>>

\* lines 247-255: the self-send
SendMe ==
    /\ pc = "send_me"
    /\ \E r \in SendResponses :
         LET data == ("template_object" :> JsonDumps(payload))
             err == SendFailure(r)
         IN  /\ calls' = Append(calls, Call(send_me_url, SendHeaders(current_token), data, r))
             /\ pc' = "idle"
             /\ IF err # NoErr
                THEN /\ raised' = err
                     /\ outcome' = "raised"
                     /\ UNCHANGED results
                ELSE /\ results' = Append(results, r.body)
                     /\ outcome' = "returned"
                     /\ UNCHANGED raised
    /\ UNCHANGED <<config, lifetime, op, ops, args, current_token, payload, chunks, idx,
                   token_read, warnings>>

Next ==
    \/ ReadToken
    \/ SendMessageCall
    \/ SendMessageToken
    \/ SendMessagePayload
    \/ SendFriendBatch
    \/ SendMe

Spec == Init /\ [][Next]_vars

\* ------------------------------------------------- vocabulary of the claims
CeilDiv(n, d) == IF n % d = 0 THEN n \div d ELSE (n \div d) + 1

RECURSIVE Flatten(_)
Flatten(lists) == IF lists = << >> THEN << >> ELSE Head(lists) \o Flatten(Tail(lists))

IsTokenCall(c) == c.url = token_url
IsFriendCall(c) == c.url = send_friend_url
IsMeCall(c) == c.url = send_me_url

TokenCalls == SelectSeq(calls, IsTokenCall)
FriendCalls == SelectSeq(calls, IsFriendCall)
MeCalls == SelectSeq(calls, IsMeCall)

HttpFailed(r) == r.transport \/ r.status < 200 \/ r.status >= 300
RefreshFailed(r) == HttpFailed(r) \/ "access_token" \notin DOMAIN r.body

SendEnded == op = "send" /\ pc = "idle"
ReceiversGiven == ~receiver_uuids.none /\ Len(receiver_uuids.v) > 0

HasKey(k) == ~api_params.none /\ k \in DOMAIN api_params.v

ValidParams ==
    \/ HasKey("template_object") /\ api_params.v["template_object"].type = "dict"
    \/ HasKey("template_object") /\ api_params.v["template_object"].type = "str"
         /\ api_params.v["template_object"].str = FeedJson
    \/ ~HasKey("template_object") /\ HasKey("text")

BadConnection ==
    \/ kakao_conn_id \in {None, ""}
    \/ /\ kakao_conn_id \in DOMAIN Connections
       /\ \/ Connections[kakao_conn_id].login \in {None, ""}
          \/ Connections[kakao_conn_id].password \in {None, ""}

\* ----------------------------------------------------------------- claims

\* C1: a send_message whose api_params hold neither 'text' nor
\* 'template_object' fails with the invalid-message error and issues no HTTP
\* call at all, the token-refresh POST included, whatever the hook's
\* configuration.
C1_InvalidMessageNoHttp ==
    (op = "send" /\ ~api_params.none /\ ~HasKey("text") /\ ~HasKey("template_object"))
        => /\ calls = << >>
           /\ pc = "idle" => (outcome = "raised" /\ raised = ErrInvalidMessage)

\* C2 (as stated): a hook built without a token override issues at most one
\* POST to the token-refresh endpoint over its lifetime, whatever the outcome
\* of the first attempt.
C2_AtMostOneRefreshEver == self_token = None => token_posts <= 1

\* C2 (amended): on a hook built without a token override, the step that fills
\* the cache is one refresh POST; once the cache is filled no further refresh
\* POST is issued, the cached token never changes and every later read gives
\* it back; so a first refresh that succeeds is the only one ever issued.
C2_OneRefreshOnceCached ==
    [][ self_token = None =>
          /\ (~cache.has /\ cache'.has) =>
                (token_posts' = token_posts + 1 /\ cache'.val = token_read')
          /\ cache.has =>
                /\ cache' = cache
                /\ token_posts' = token_posts
                /\ Len(TokenCalls') <= Len(TokenCalls)
                /\ (ops' # ops /\ op' = "read") =>
                      (outcome' = "returned" /\ token_read' = cache.val /\ calls' = << >>)
                /\ (pc = "token") => (current_token' = cache.val /\ pc' = "payload")
          /\ (token_posts = 0 /\ cache'.has) => token_posts' = 1 ]_vars

C2_Witness ==
    /\ self_token = None
    /\ cache.has
    /\ token_posts = 1
    /\ ops >= 3
    /\ op = "read"
    /\ outcome = "returned"
    /\ token_read = cache.val
    /\ calls = << >>

\* C3 (as stated): a hook built with any string as token override never
\* contacts the token-refresh endpoint and never looks a connection up.
C3_AnyOverrideNoRefresh == self_token # None => (token_posts = 0 /\ conn_lookups = 0)

\* C3 (amended): a hook built with a non-empty string as token override never
\* contacts the token-refresh endpoint and never looks a connection up; every
\* read of the token gives the override and every send call carries it.
C3_NonEmptyOverrideNoRefresh ==
    Truthy(self_token) =>
        /\ token_posts = 0
        /\ conn_lookups = 0
        /\ TokenCalls = << >>
        /\ raised \notin {ErrNoConn, ErrMissingCred, ErrTokenRefresh}
        /\ (op = "read") => (outcome = "returned" /\ token_read = self_token)
        /\ (op = "send" /\ pc # "token") => current_token = self_token
        /\ \A i \in 1..Len(calls) : calls[i].headers["Authorization"] = "Bearer " \o self_token

C3_Witness ==
    /\ Truthy(self_token)
    /\ kakao_conn_id = "kakao_default"
    /\ ops >= 2
    /\ SendEnded
    /\ outcome = "returned"
    /\ Len(calls) = 2

\* C4: a send_message with N > 0 receivers and a valid payload whose HTTP calls
\* all succeed issues exactly ceil(N/5) POSTs to the friend-send endpoint and
\* none to the self-send endpoint; every batch has at most 5 recipients, only
\* the last may have fewer, and the batches in call order concatenate to the
\* original list.
C4_BatchesPartitionReceivers ==
    (SendEnded /\ outcome = "returned" /\ ReceiversGiven) =>
        LET N == Len(receiver_uuids.v)
            B == CeilDiv(N, 5)
        IN  /\ Len(FriendCalls) = B
            /\ MeCalls = << >>
            /\ Len(chunks) = B
            /\ \A k \in 1..B :
                 /\ Len(chunks[k]) <= 5
                 /\ Len(chunks[k]) >= 1
                 /\ k < B => Len(chunks[k]) = 5
                 /\ FriendCalls[k].data["receiver_uuids"] = JsonDumpsList(chunks[k])
            /\ Flatten(chunks) = receiver_uuids.v

C4_Witness ==
    /\ SendEnded
    /\ outcome = "returned"
    /\ ReceiversGiven
    /\ Len(receiver_uuids.v) > 10
    /\ Len(receiver_uuids.v) % 5 # 0
    /\ Len(FriendCalls) = 3

\* C5: a send call that fails at the HTTP level, by a non-2xx status or by a
\* transport error, on the self-send or on any batch, makes send_message fail
\* with the dispatch error "KakaoTalk Send Error", and no send call follows
\* the failing one.
C5_SendFailureIsDispatchError ==
    \A i \in 1..Len(calls) :
        (~IsTokenCall(calls[i]) /\ HttpFailed(calls[i].resp)) =>
            /\ i = Len(calls)
            /\ outcome = "raised"
            /\ raised = ErrSend

\* C6: when the refresh exchange of a send_message fails (transport error,
\* non-2xx status, or a response without access_token), send_message fails
\* with "Kakao Token Refresh Error" and no send endpoint is contacted.
C6_RefreshFailureNoSend ==
    (op = "send" /\ \E i \in 1..Len(calls) : IsTokenCall(calls[i]) /\ RefreshFailed(calls[i].resp)) =>
        /\ pc = "idle"
        /\ outcome = "raised"
        /\ raised = ErrTokenRefresh
        /\ FriendCalls = << >>
        /\ MeCalls = << >>
        /\ Len(calls) = 1
        /\ results = << >>
        /\ ~cache.has

C6_Witness ==
    /\ SendEnded
    /\ ~Truthy(self_token)
    /\ raised = ErrTokenRefresh
    /\ Len(calls) = 1
    /\ calls[1].resp.status = 200
    /\ ~calls[1].resp.transport
    /\ ReceiversGiven
    /\ ValidParams

\* C7: without a token override, a missing or empty connection id, or a
\* connection without login or without password, makes a read of the token
\* and a send_message fail with the auth-configuration AirflowException
\* before any HTTP call: no refresh POST, no send POST.
C7_AuthConfigErrorNoHttp ==
    (~Truthy(self_token) /\ BadConnection /\ op # "none") =>
        /\ calls = << >>
        /\ token_posts = 0
        /\ ~cache.has
        /\ pc \in {"idle", "token"}
        /\ pc = "idle" =>
             /\ outcome = "raised"
             /\ raised.type = "AirflowException"
             /\ raised = (IF kakao_conn_id \in {None, ""} THEN ErrNoConn ELSE ErrMissingCred)

C7_Witness ==
    /\ self_token = None
    /\ kakao_conn_id = "kakao_nopassword"
    /\ SendEnded
    /\ ValidParams
    /\ raised = ErrMissingCred
    /\ calls = << >>

\* C8: on a hook without override and with valid credentials, a send_message
\* with empty or absent receivers and a valid payload whose refresh answers
\* access token T issues exactly two HTTP calls: the refresh POST, then one
\* self-send POST with 'Authorization: Bearer T'; no friend-send is made and
\* the result is the one-element list of the self-send response body.
C8_RefreshThenSelfSend ==
    (SendEnded /\ ~Truthy(self_token) /\ ~ReceiversGiven /\ ValidParams
       /\ calls # << >> /\ IsTokenCall(calls[1]) /\ ~RefreshFailed(calls[1].resp)) =>
        /\ Len(calls) = 2
        /\ IsMeCall(calls[2])
        /\ calls[2].headers["Authorization"] = "Bearer " \o calls[1].resp.body["access_token"]
        /\ FriendCalls = << >>
        /\ ~HttpFailed(calls[2].resp) =>
             (outcome = "returned" /\ results = <<calls[2].resp.body>>)

C8_Witness ==
    /\ SendEnded
    /\ self_token = None
    /\ receiver_uuids.none
    /\ outcome = "returned"
    /\ Len(calls) = 2
    /\ IsTokenCall(calls[1])
    /\ calls[2].headers["Authorization"] = "Bearer tok1"
    /\ results = <<SendBodyOk>>

\* C9: every send call of a send_message carries the payload api_params
\* determine: 'template_object' when present (parsed when a JSON string, as it
\* is when a dict), before 'text'; otherwise the text payload, whose web_url
\* defaults to the placeholder and whose mobile_web_url defaults to the
\* effective web_url.
C9_PayloadFromParams ==
    \A i \in 1..Len(calls) :
        ~IsTokenCall(calls[i]) =>
            LET body == calls[i].data["template_object"]
                p == api_params.v
            IN  /\ HasKey("template_object") \/ HasKey("text")
                /\ HasKey("template_object") =>
                     /\ p["template_object"].type = "dict" =>
                          body = JsonDumps(p["template_object"].dict)
                     /\ p["template_object"].type = "str" =>
                          (IsJson(body) /\ JsonLoads(body) = JsonLoads(p["template_object"].str))
                /\ ~HasKey("template_object") =>
                     LET w == IF HasKey("web_url") THEN p["web_url"].str
                              ELSE "http://localhost:8080"
                         m == IF HasKey("mobile_web_url") THEN p["mobile_web_url"].str ELSE w
                     IN  /\ IsJson(body)
                         /\ JsonLoads(body).object_type = "text"
                         /\ JsonLoads(body).text = p["text"].str
                         /\ JsonLoads(body).link.web_url = w
                         /\ JsonLoads(body).link.mobile_web_url = m

C9_Witness ==
    /\ SendEnded
    /\ outcome = "returned"
    /\ HasKey("template_object")
    /\ HasKey("text")
    /\ api_params.v["template_object"].type = "str"
    /\ Len(FriendCalls) = 2
    /\ FriendCalls[2].data["template_object"] = FeedJson

\* C10: in a friend-send whose HTTP calls all return a success status, a
\* response with a non-empty failure_info does not abort the send: all
\* ceil(N/5) batches are sent, no error is raised and the result holds the
\* parsed response of every batch in call order.
C10_PartialFailureContinues ==
    (op = "send" /\ ReceiversGiven /\ ValidParams
       /\ calls # << >> /\ ~IsTokenCall(calls[Len(calls)])
       /\ \A i \in 1..Len(calls) : ~HttpFailed(calls[i].resp)) =>
        /\ raised = NoErr
        /\ outcome # "raised"
        /\ Len(results) = Len(FriendCalls)
        /\ \A k \in 1..Len(FriendCalls) : results[k] = FriendCalls[k].resp.body
        /\ Len(FriendCalls) <= CeilDiv(Len(receiver_uuids.v), 5)
        /\ (pc = "idle") <=> (Len(FriendCalls) = CeilDiv(Len(receiver_uuids.v), 5))
        /\ pc = "idle" => outcome = "returned"

C10_Witness ==
    /\ SendEnded
    /\ outcome = "returned"
    /\ Len(results) = 3
    /\ results[1] = SendBodyPartial
    /\ results[2] = SendBodyOk
    /\ results[3] = SendBodyPartial
    /\ warnings >= 2

====
